---- MODULE Spec2Model ----
(***************************************************************************)
(* Expression-tracking shadow types of curve25519-dalek-dbg.               *)
(*                                                                         *)
(* A shadow value pairs a numeric value (a scalar of the prime field, or   *)
(* an element of the prime-order group) with a symbolic Tree recording how *)
(* it was derived.  The field and the group come from curve25519-dalek;    *)
(* here the field is Z_Order for a small prime Order and a group element   *)
(* is written as its discrete logarithm with respect to the base point, so *)
(* the group is Z_Order under addition and scalar multiplication is        *)
(* multiplication modulo Order.                                            *)
(***************************************************************************)
EXTENDS Integers, Sequences, FiniteSets, TLC

\* The prime order of the scalar field and of the group (scaled down).
Order == 5

\* Leaf values are drawn from 0..MaxInput.
MaxInput == 2

\* Number of operations applied in one run.
MaxOps == 2

\* Longest iterable handed to sum / product.
MaxLen == 2

\* The bindings of the test program: two scalars and two points.
SReg == {1, 2}
PReg == {1, 2}

ScalarLeafName == <<"a", "b">>
PointLeafName == <<"x", "y">>

-----------------------------------------------------------------------------
(* expr.rs: enum Tree *)

Zero == [k |-> "Zero"]
One == [k |-> "One"]
Unnamed == [k |-> "Unnamed"]
Name(n) == [k |-> "Name", n |-> n]
Add(l, r) == [k |-> "Add", l |-> l, r |-> r]
Sub(l, r) == [k |-> "Sub", l |-> l, r |-> r]
Mul(l, r) == [k |-> "Mul", l |-> l, r |-> r]
Inv(x) == [k |-> "Inv", x |-> x]
Neg(x) == [k |-> "Neg", x |-> x]

(* expr.rs: impl Debug for Tree.  The text is a sequence of characters;    *)
(* "^-" and "^1" stand for the two characters of the superscript minus one *)
(* that follows an inverted operand.  A name is written as it is; the      *)
(* names used here are single letters.                                     *)

RECURSIVE Tree_fmt(_)
Tree_fmt(t) ==
    CASE t.k = "Zero" -> <<"0">>
      [] t.k = "One" -> <<"1">>
      [] t.k = "Unnamed" -> <<"?">>
      [] t.k = "Name" -> <<t.n>>
      [] t.k = "Add" ->
            <<"(">> \o Tree_fmt(t.l) \o <<" ", "+", " ">> \o Tree_fmt(t.r) \o <<")">>
      [] t.k = "Sub" ->
            <<"(">> \o Tree_fmt(t.l) \o <<" ", "-", " ">> \o Tree_fmt(t.r) \o <<")">>
      [] t.k = "Mul" -> Tree_fmt(t.l) \o <<" ", "*", " ">> \o Tree_fmt(t.r)
      [] t.k = "Inv" -> Tree_fmt(t.x) \o <<"^-", "^1">>
      [] t.k = "Neg" -> <<"-">> \o Tree_fmt(t.x)

-----------------------------------------------------------------------------
(* The numeric operations of the plain types (DalekScalar,                 *)
(* DalekRistrettoPoint), as the shadow types call them.                    *)

RECURSIVE Pow(_, _)
Pow(a, n) == IF n = 0 THEN 1 ELSE (a * Pow(a, n - 1)) % Order

DalekScalar_add(a, b) == (a + b) % Order
DalekScalar_sub(a, b) == (a + Order - b) % Order
DalekScalar_mul(a, b) == (a * b) % Order
DalekScalar_neg(a) == (Order - a) % Order
\* a^(Order-2): the inverse of a nonzero scalar, and zero for zero.
DalekScalar_invert(a) == Pow(a, Order - 2)
DalekScalar_ZERO == 0
DalekScalar_ONE == 1

\* Iterator::sum / Iterator::product of plain scalars: folds from ZERO / ONE.
RECURSIVE DalekScalar_sum(_)
DalekScalar_sum(vs) ==
    IF vs = <<>> THEN DalekScalar_ZERO
    ELSE DalekScalar_add(DalekScalar_sum(SubSeq(vs, 1, Len(vs) - 1)), vs[Len(vs)])

RECURSIVE DalekScalar_product(_)
DalekScalar_product(vs) ==
    IF vs = <<>> THEN DalekScalar_ONE
    ELSE DalekScalar_mul(DalekScalar_product(SubSeq(vs, 1, Len(vs) - 1)), vs[Len(vs)])

\* The sequence vs without its k-th element.
Without(vs, k) == SubSeq(vs, 1, k - 1) \o SubSeq(vs, k + 1, Len(vs))

\* Scalar::batch_invert (Montgomery's trick): the inverse acc of the product
\* of all inputs is returned, and input k becomes acc times the product of
\* the other inputs: its inverse when no input is zero, zero otherwise (a
\* build with debug assertions stops at a zero input instead).
DalekScalar_batch_invert(vs) ==
    LET acc == DalekScalar_invert(DalekScalar_product(vs))
    IN  [values |-> [k \in DOMAIN vs |->
                        DalekScalar_mul(acc, DalekScalar_product(Without(vs, k)))],
         ret |-> acc]

DalekPoint_add(p, q) == (p + q) % Order
DalekPoint_sub(p, q) == (p + Order - q) % Order
DalekPoint_neg(p) == (Order - p) % Order
DalekPoint_mul(p, a) == (p * a) % Order
DalekPoint_identity == 0

\* Iterator::sum of plain points: folds from the identity.
RECURSIVE DalekPoint_sum(_)
DalekPoint_sum(vs) ==
    IF vs = <<>> THEN DalekPoint_identity
    ELSE DalekPoint_add(DalekPoint_sum(SubSeq(vs, 1, Len(vs) - 1)), vs[Len(vs)])

-----------------------------------------------------------------------------
(* scalar.rs: TestScalar *)

TestScalar(v, t) == [value |-> v, tree |-> t]

Scalar_ZERO == TestScalar(DalekScalar_ZERO, Zero)
Scalar_ONE == TestScalar(DalekScalar_ONE, One)

Scalar_from(v) == TestScalar(v, Unnamed)

\* Mutant: the name wraps a derived tree instead of replacing it.
Scalar_named_KeepsDerived(a, n) ==
    IF a.tree.k \in {"Name", "Unnamed", "Zero", "One"}
    THEN TestScalar(a.value, Name(n))
    ELSE TestScalar(a.value, a.tree)

Scalar_named(a, n) == TestScalar(a.value, Name(n))

DalekScalar_named(v, n) == v

Scalar_invert(a) == TestScalar(DalekScalar_invert(a.value), Inv(a.tree))

Scalar_mul_assign(a, b) ==
    TestScalar(DalekScalar_mul(a.value, b.value), Mul(a.tree, b.tree))

Scalar_mul(a, b) ==
    TestScalar(DalekScalar_mul(a.value, b.value), Mul(a.tree, b.tree))

Scalar_add_assign(a, b) ==
    TestScalar(DalekScalar_add(a.value, b.value), Add(a.tree, b.tree))

Scalar_add(a, b) ==
    TestScalar(DalekScalar_add(a.value, b.value), Add(a.tree, b.tree))

\* Mutant: the value is subtracted but the node recorded is an Add.
Scalar_sub_assign_AddNode(a, b) ==
    TestScalar(DalekScalar_sub(a.value, b.value), Add(a.tree, b.tree))

Scalar_sub_assign(a, b) ==
    TestScalar(DalekScalar_sub(a.value, b.value), Sub(a.tree, b.tree))

\* Mutant: x - x is simplified to the constant ZERO.
Scalar_sub_Simplifying(a, b) ==
    IF a.tree = b.tree
    THEN TestScalar(DalekScalar_ZERO, Zero)
    ELSE TestScalar(DalekScalar_sub(a.value, b.value), Sub(a.tree, b.tree))

Scalar_sub(a, b) ==
    TestScalar(DalekScalar_sub(a.value, b.value), Sub(a.tree, b.tree))

Scalar_neg(a) == TestScalar(DalekScalar_neg(a.value), Neg(a.tree))

\* The values of a sequence of shadow values: iter.map(|x| x.borrow().value).
Values(xs) == [k \in DOMAIN xs |-> xs[k].value]

\* Mutant: each element's tree is wrapped in Inv, as invert does.
Scalar_batch_invert_InvNodes(inputs) ==
    LET r == DalekScalar_batch_invert(Values(inputs))
    IN  [inputs |-> [k \in DOMAIN inputs |->
                        TestScalar(r.values[k], Inv(inputs[k].tree))],
         ret |-> Scalar_from(r.ret)]

\* inputs after the call, and the value returned.
Scalar_batch_invert(inputs) ==
    LET r == DalekScalar_batch_invert(Values(inputs))
    IN  [inputs |-> [k \in DOMAIN inputs |->
                        TestScalar(r.values[k], inputs[k].tree)],
         ret |-> Scalar_from(r.ret)]

\* Mutant: an empty product is the constant ONE and a single factor is
\* returned as it is.
Scalar_product_KeepsTrees(xs) ==
    CASE Len(xs) = 0 -> Scalar_ONE
      [] Len(xs) = 1 -> xs[1]
      [] OTHER -> Scalar_from(DalekScalar_product(Values(xs)))

Scalar_product(xs) == Scalar_from(DalekScalar_product(Values(xs)))

Scalar_sum(xs) == Scalar_from(DalekScalar_sum(Values(xs)))

\* Mutant: equality of all fields, as a derived PartialEq would compare.
Scalar_eq_AllFields(a, b) == a.value = b.value /\ a.tree = b.tree

Scalar_eq(a, b) == a.value = b.value

\* subtle::Choice: 1 for equal, 0 for different.
Scalar_ct_eq(a, b) == IF a.value = b.value THEN 1 ELSE 0

\* What the Hasher is fed.
Scalar_hash(a) == <<a.value>>

-----------------------------------------------------------------------------
(* ristretto.rs: TestRistrettoPoint *)

TestRistrettoPoint(v, t) == [value |-> v, tree |-> t]

Point_from(v) == TestRistrettoPoint(v, Unnamed)

Point_named(p, n) == TestRistrettoPoint(p.value, Name(n))

DalekPoint_named(v, n) == v

Point_identity == TestRistrettoPoint(DalekPoint_identity, One)

Point_default == TestRistrettoPoint(DalekPoint_identity, One)

Point_add(p, q) ==
    TestRistrettoPoint(DalekPoint_add(p.value, q.value), Add(p.tree, q.tree))

Point_add_assign(p, q) ==
    TestRistrettoPoint(DalekPoint_add(p.value, q.value), Add(p.tree, q.tree))

Point_sub(p, q) ==
    TestRistrettoPoint(DalekPoint_sub(p.value, q.value), Sub(p.tree, q.tree))

\* As written in the source: the value is added and the node is an Add.
Point_sub_assign(p, q) ==
    TestRistrettoPoint(DalekPoint_add(p.value, q.value), Add(p.tree, q.tree))

Point_mul_assign(p, a) ==
    TestRistrettoPoint(DalekPoint_mul(p.value, a.value), Mul(p.tree, a.tree))

\* point * scalar
Point_mul(p, a) ==
    TestRistrettoPoint(DalekPoint_mul(p.value, a.value), Mul(p.tree, a.tree))

\* Mutant: scalar * point normalised to put the point's tree first.
Scalar_mul_point_PointFirst(a, p) ==
    TestRistrettoPoint(DalekPoint_mul(p.value, a.value), Mul(p.tree, a.tree))

\* scalar * point
Scalar_mul_point(a, p) ==
    TestRistrettoPoint(DalekPoint_mul(p.value, a.value), Mul(a.tree, p.tree))

Point_neg(p) == TestRistrettoPoint(DalekPoint_neg(p.value), Neg(p.tree))

Point_sum(xs) == Point_from(DalekPoint_sum(Values(xs)))

Point_eq(p, q) == p.value = q.value

Point_ct_eq(p, q) == IF p.value = q.value THEN 1 ELSE 0

-----------------------------------------------------------------------------
VARIABLES
    s,      \* s[i]: the shadow scalar bound to scalar variable i
    p,      \* p[i]: the shadow point bound to point variable i
    ds,     \* ds[i]: the plain scalar of the same program run on the plain types
    dp,     \* dp[i]: the plain point of the same program run on the plain types
    leafS,  \* leafS[n]: the value scalar leaf n had when it was named
    leafP,  \* leafP[n]: the value point leaf n had when it was named
    ret,    \* the value returned by the last call that returns one
    last,   \* the operation just applied, with its operand variables
    old,    \* the left operand (self) as it was before that operation
    nops    \* operations applied so far

vars == <<s, p, ds, dp, leafS, leafP, ret, last, old, nops>>

Inputs == 0 .. MaxInput

\* arg lists the variables of an iterable or slice argument.
NoOp == [op |-> "init", i |-> 0, j |-> 0, arg |-> <<>>]
Did(op, i, j) == [op |-> op, i |-> i, j |-> j, arg |-> <<>>]
DidOver(op, i, arg) == [op |-> op, i |-> i, j |-> 0, arg |-> arg]

\* let a = Scalar::random(rng).named("a"); ... with b possibly a constant,
\* and y possibly the identity.
Init ==
    /\ \E va \in Inputs, sb \in {Scalar_named(Scalar_from(v), ScalarLeafName[2]) : v \in Inputs}
                                  \cup {Scalar_ZERO, Scalar_ONE} :
          /\ s = <<Scalar_named(Scalar_from(va), ScalarLeafName[1]), sb>>
          /\ ds = <<va, sb.value>>
          /\ leafS = [n \in {ScalarLeafName[1], ScalarLeafName[2]} |->
                         IF n = ScalarLeafName[1] THEN va ELSE sb.value]
    /\ \E vx \in Inputs, py \in {Point_named(Point_from(v), PointLeafName[2]) : v \in Inputs}
                                  \cup {Point_identity} :
          /\ p = <<Point_named(Point_from(vx), PointLeafName[1]), py>>
          /\ dp = <<vx, py.value>>
          /\ leafP = [n \in {PointLeafName[1], PointLeafName[2]} |->
                         IF n = PointLeafName[1] THEN vx ELSE py.value]
    /\ ret = Scalar_ZERO
    /\ last = NoOp
    /\ old = Scalar_ZERO
    /\ nops = 0

\* One more operation of the program; everything but the named variables is
\* left alone.
Step(did, self) ==
    /\ nops < MaxOps
    /\ nops' = nops + 1
    /\ last' = did
    /\ old' = self

\* a = &a + &b   (and the plain program does the same on plain scalars)
ScalarAdd(i, j) ==
    /\ Step(Did("scalar_add", i, j), s[i])
    /\ s' = [s EXCEPT ![i] = Scalar_add(s[i], s[j])]
    /\ ds' = [ds EXCEPT ![i] = DalekScalar_add(ds[i], ds[j])]
    /\ UNCHANGED <<p, dp, leafS, leafP, ret>>

ScalarAddAssign(i, j) ==
    /\ Step(Did("scalar_add_assign", i, j), s[i])
    /\ s' = [s EXCEPT ![i] = Scalar_add_assign(s[i], s[j])]
    /\ ds' = [ds EXCEPT ![i] = DalekScalar_add(ds[i], ds[j])]
    /\ UNCHANGED <<p, dp, leafS, leafP, ret>>

ScalarSub(i, j) ==
    /\ Step(Did("scalar_sub", i, j), s[i])
    /\ s' = [s EXCEPT ![i] = Scalar_sub(s[i], s[j])]
    /\ ds' = [ds EXCEPT ![i] = DalekScalar_sub(ds[i], ds[j])]
    /\ UNCHANGED <<p, dp, leafS, leafP, ret>>

ScalarSubAssign(i, j) ==
    /\ Step(Did("scalar_sub_assign", i, j), s[i])
    /\ s' = [s EXCEPT ![i] = Scalar_sub_assign(s[i], s[j])]
    /\ ds' = [ds EXCEPT ![i] = DalekScalar_sub(ds[i], ds[j])]
    /\ UNCHANGED <<p, dp, leafS, leafP, ret>>

ScalarMul(i, j) ==
    /\ Step(Did("scalar_mul", i, j), s[i])
    /\ s' = [s EXCEPT ![i] = Scalar_mul(s[i], s[j])]
    /\ ds' = [ds EXCEPT ![i] = DalekScalar_mul(ds[i], ds[j])]
    /\ UNCHANGED <<p, dp, leafS, leafP, ret>>

ScalarMulAssign(i, j) ==
    /\ Step(Did("scalar_mul_assign", i, j), s[i])
    /\ s' = [s EXCEPT ![i] = Scalar_mul_assign(s[i], s[j])]
    /\ ds' = [ds EXCEPT ![i] = DalekScalar_mul(ds[i], ds[j])]
    /\ UNCHANGED <<p, dp, leafS, leafP, ret>>

ScalarNeg(i) ==
    /\ Step(Did("scalar_neg", i, i), s[i])
    /\ s' = [s EXCEPT ![i] = Scalar_neg(s[i])]
    /\ ds' = [ds EXCEPT ![i] = DalekScalar_neg(ds[i])]
    /\ UNCHANGED <<p, dp, leafS, leafP, ret>>

ScalarInvert(i) ==
    /\ Step(Did("scalar_invert", i, i), s[i])
    /\ s' = [s EXCEPT ![i] = Scalar_invert(s[i])]
    /\ ds' = [ds EXCEPT ![i] = DalekScalar_invert(ds[i])]
    /\ UNCHANGED <<p, dp, leafS, leafP, ret>>

PointAdd(i, j) ==
    /\ Step(Did("point_add", i, j), p[i])
    /\ p' = [p EXCEPT ![i] = Point_add(p[i], p[j])]
    /\ dp' = [dp EXCEPT ![i] = DalekPoint_add(dp[i], dp[j])]
    /\ UNCHANGED <<s, ds, leafS, leafP, ret>>

PointAddAssign(i, j) ==
    /\ Step(Did("point_add_assign", i, j), p[i])
    /\ p' = [p EXCEPT ![i] = Point_add_assign(p[i], p[j])]
    /\ dp' = [dp EXCEPT ![i] = DalekPoint_add(dp[i], dp[j])]
    /\ UNCHANGED <<s, ds, leafS, leafP, ret>>

PointSub(i, j) ==
    /\ Step(Did("point_sub", i, j), p[i])
    /\ p' = [p EXCEPT ![i] = Point_sub(p[i], p[j])]
    /\ dp' = [dp EXCEPT ![i] = DalekPoint_sub(dp[i], dp[j])]
    /\ UNCHANGED <<s, ds, leafS, leafP, ret>>

PointSubAssign(i, j) ==
    /\ Step(Did("point_sub_assign", i, j), p[i])
    /\ p' = [p EXCEPT ![i] = Point_sub_assign(p[i], p[j])]
    /\ dp' = [dp EXCEPT ![i] = DalekPoint_sub(dp[i], dp[j])]
    /\ UNCHANGED <<s, ds, leafS, leafP, ret>>

PointNeg(i) ==
    /\ Step(Did("point_neg", i, i), p[i])
    /\ p' = [p EXCEPT ![i] = Point_neg(p[i])]
    /\ dp' = [dp EXCEPT ![i] = DalekPoint_neg(dp[i])]
    /\ UNCHANGED <<s, ds, leafS, leafP, ret>>

\* x = &x * &a
PointMul(i, j) ==
    /\ Step(Did("point_mul", i, j), p[i])
    /\ p' = [p EXCEPT ![i] = Point_mul(p[i], s[j])]
    /\ dp' = [dp EXCEPT ![i] = DalekPoint_mul(dp[i], ds[j])]
    /\ UNCHANGED <<s, ds, leafS, leafP, ret>>

\* x = &a * &x
ScalarMulPoint(i, j) ==
    /\ Step(Did("scalar_mul_point", i, j), p[i])
    /\ p' = [p EXCEPT ![i] = Scalar_mul_point(s[j], p[i])]
    /\ dp' = [dp EXCEPT ![i] = DalekPoint_mul(dp[i], ds[j])]
    /\ UNCHANGED <<s, ds, leafS, leafP, ret>>

\* x *= &a
PointMulAssign(i, j) ==
    /\ Step(Did("point_mul_assign", i, j), p[i])
    /\ p' = [p EXCEPT ![i] = Point_mul_assign(p[i], s[j])]
    /\ dp' = [dp EXCEPT ![i] = DalekPoint_mul(dp[i], ds[j])]
    /\ UNCHANGED <<s, ds, leafS, leafP, ret>>

-----------------------------------------------------------------------------
(* The rest of the surface: naming, the aggregates and batch inversion.    *)

\* The iterables and slices over the scalar (point) variables.
SIterables == UNION {[1 .. n -> SReg] : n \in 0 .. MaxLen}
PIterables == UNION {[1 .. n -> PReg] : n \in 0 .. MaxLen}
SSlices == {[k \in 1 .. n |-> lo + k - 1] : lo \in SReg, n \in 0 .. MaxLen}
              \cap UNION {[1 .. n -> SReg] : n \in 0 .. MaxLen}

\* a = a.named(name)
ScalarNamed(i, n) ==
    /\ Step(Did("scalar_named", i, n), s[i])
    /\ s' = [s EXCEPT ![i] = Scalar_named(s[i], ScalarLeafName[n])]
    /\ ds' = [ds EXCEPT ![i] = DalekScalar_named(ds[i], ScalarLeafName[n])]
    /\ leafS' = [leafS EXCEPT ![ScalarLeafName[n]] = s[i].value]
    /\ UNCHANGED <<p, dp, leafP, ret>>

\* x = x.named(name)
PointNamed(i, n) ==
    /\ Step(Did("point_named", i, n), p[i])
    /\ p' = [p EXCEPT ![i] = Point_named(p[i], PointLeafName[n])]
    /\ dp' = [dp EXCEPT ![i] = DalekPoint_named(dp[i], PointLeafName[n])]
    /\ leafP' = [leafP EXCEPT ![PointLeafName[n]] = p[i].value]
    /\ UNCHANGED <<s, ds, leafS, ret>>

\* a = [..].iter().sum()
ScalarSum(i, xs) ==
    /\ Step(DidOver("scalar_sum", i, xs), s[i])
    /\ s' = [s EXCEPT ![i] = Scalar_sum([k \in DOMAIN xs |-> s[xs[k]]])]
    /\ ds' = [ds EXCEPT ![i] = DalekScalar_sum([k \in DOMAIN xs |-> ds[xs[k]]])]
    /\ UNCHANGED <<p, dp, leafS, leafP, ret>>

\* a = [..].iter().product()
ScalarProduct(i, xs) ==
    /\ Step(DidOver("scalar_product", i, xs), s[i])
    /\ s' = [s EXCEPT ![i] = Scalar_product([k \in DOMAIN xs |-> s[xs[k]]])]
    /\ ds' = [ds EXCEPT ![i] = DalekScalar_product([k \in DOMAIN xs |-> ds[xs[k]]])]
    /\ UNCHANGED <<p, dp, leafS, leafP, ret>>

\* x = [..].iter().sum()
PointSum(i, xs) ==
    /\ Step(DidOver("point_sum", i, xs), p[i])
    /\ p' = [p EXCEPT ![i] = Point_sum([k \in DOMAIN xs |-> p[xs[k]]])]
    /\ dp' = [dp EXCEPT ![i] = DalekPoint_sum([k \in DOMAIN xs |-> dp[xs[k]]])]
    /\ UNCHANGED <<s, ds, leafS, leafP, ret>>

\* Scalar::batch_invert(&mut vars[lo..hi]) on the slice xs of the scalar
\* variables; the returned scalar goes to ret.
ScalarBatchInvert(xs) ==
    /\ Step(DidOver("scalar_batch_invert", 0, xs), Scalar_ZERO)
    /\ LET r == Scalar_batch_invert([k \in DOMAIN xs |-> s[xs[k]]])
           d == DalekScalar_batch_invert([k \in DOMAIN xs |-> ds[xs[k]]])
       IN  /\ s' = [i \in DOMAIN s |->
                       IF \E k \in DOMAIN xs : xs[k] = i
                       THEN r.inputs[CHOOSE k \in DOMAIN xs : xs[k] = i]
                       ELSE s[i]]
           /\ ds' = [i \in DOMAIN ds |->
                       IF \E k \in DOMAIN xs : xs[k] = i
                       THEN d.values[CHOOSE k \in DOMAIN xs : xs[k] = i]
                       ELSE ds[i]]
           /\ ret' = r.ret
    /\ UNCHANGED <<p, dp, leafS, leafP>>

Next ==
    \/ \E i \in SReg, j \in SReg : ScalarAdd(i, j)
    \/ \E i \in SReg, j \in SReg : ScalarAddAssign(i, j)
    \/ \E i \in SReg, j \in SReg : ScalarSub(i, j)
    \/ \E i \in SReg, j \in SReg : ScalarSubAssign(i, j)
    \/ \E i \in SReg, j \in SReg : ScalarMul(i, j)
    \/ \E i \in SReg, j \in SReg : ScalarMulAssign(i, j)
    \/ \E i \in SReg : ScalarNeg(i)
    \/ \E i \in SReg : ScalarInvert(i)
    \/ \E i \in PReg, j \in PReg : PointAdd(i, j)
    \/ \E i \in PReg, j \in PReg : PointAddAssign(i, j)
    \/ \E i \in PReg, j \in PReg : PointSub(i, j)
    \/ \E i \in PReg, j \in PReg : PointSubAssign(i, j)
    \/ \E i \in PReg : PointNeg(i)
    \/ \E i \in PReg, j \in SReg : PointMul(i, j)
    \/ \E i \in PReg, j \in SReg : ScalarMulPoint(i, j)
    \/ \E i \in PReg, j \in SReg : PointMulAssign(i, j)

Spec == Init /\ [][Next]_vars

\* The operators together with naming, the aggregates and batch inversion.
NextLib ==
    \/ Next
    \/ \E i \in SReg, n \in DOMAIN ScalarLeafName : ScalarNamed(i, n)
    \/ \E i \in PReg, n \in DOMAIN PointLeafName : PointNamed(i, n)
    \/ \E i \in SReg, xs \in SIterables : ScalarSum(i, xs)
    \/ \E i \in SReg, xs \in SIterables : ScalarProduct(i, xs)
    \/ \E i \in PReg, xs \in PIterables : PointSum(i, xs)
    \/ \E xs \in SSlices : ScalarBatchInvert(xs)

SpecLib == Init /\ [][NextLib]_vars

-----------------------------------------------------------------------------
(* Structural evaluation of a tree: a name stands for the value its leaf   *)
(* had when it was named, Zero and One for the identities, and each        *)
(* operator node for the numeric operation on its evaluated children.  A   *)
(* Mul node of a point has one point child and one scalar child; Sorts     *)
(* tells which is which (a constant can be read either way).               *)

RECURSIVE Sorts(_)
Sorts(t) ==
    CASE t.k = "Name" -> (IF t.n \in DOMAIN leafS THEN {"S"} ELSE {})
                            \cup (IF t.n \in DOMAIN leafP THEN {"P"} ELSE {})
      [] t.k \in {"Zero", "One"} -> {"S", "P"}
      [] t.k \in {"Add", "Sub"} -> Sorts(t.l) \cap Sorts(t.r)
      [] t.k = "Neg" -> Sorts(t.x)
      [] t.k = "Inv" -> Sorts(t.x) \cap {"S"}
      [] t.k = "Mul" ->
            (IF "S" \in Sorts(t.l) /\ "S" \in Sorts(t.r) THEN {"S"} ELSE {})
            \cup (IF \/ "P" \in Sorts(t.l) /\ "S" \in Sorts(t.r)
                     \/ "S" \in Sorts(t.l) /\ "P" \in Sorts(t.r)
                  THEN {"P"} ELSE {})
      [] OTHER -> {}

Undefined == Order

RECURSIVE EvalS(_)
EvalS(t) ==
    CASE t.k = "Name" -> IF t.n \in DOMAIN leafS THEN leafS[t.n] ELSE Undefined
      [] t.k = "Zero" -> DalekScalar_ZERO
      [] t.k = "One" -> DalekScalar_ONE
      [] t.k = "Add" -> DalekScalar_add(EvalS(t.l), EvalS(t.r))
      [] t.k = "Sub" -> DalekScalar_sub(EvalS(t.l), EvalS(t.r))
      [] t.k = "Mul" -> DalekScalar_mul(EvalS(t.l), EvalS(t.r))
      [] t.k = "Neg" -> DalekScalar_neg(EvalS(t.x))
      [] t.k = "Inv" -> DalekScalar_invert(EvalS(t.x))
      [] OTHER -> Undefined

RECURSIVE EvalP(_)
EvalP(t) ==
    CASE t.k = "Name" -> IF t.n \in DOMAIN leafP THEN leafP[t.n] ELSE Undefined
      [] t.k \in {"Zero", "One"} -> DalekPoint_identity
      [] t.k = "Add" -> DalekPoint_add(EvalP(t.l), EvalP(t.r))
      [] t.k = "Sub" -> DalekPoint_sub(EvalP(t.l), EvalP(t.r))
      [] t.k = "Mul" ->
            IF "P" \in Sorts(t.l) /\ "S" \in Sorts(t.r)
            THEN DalekPoint_mul(EvalP(t.l), EvalS(t.r))
            ELSE DalekPoint_mul(EvalP(t.r), EvalS(t.l))
      [] t.k = "Neg" -> DalekPoint_neg(EvalP(t.x))
      [] OTHER -> Undefined

-----------------------------------------------------------------------------
(* The usual reading of a printed expression, with each name standing for  *)
(* the value its leaf had when it was named:                               *)
(*     expr    ::= term (("+" | "-") term)*                                *)
(*     term    ::= unary ("*" unary)*                                      *)
(*     unary   ::= "-" unary | postfix                                     *)
(*     postfix ::= atom ("^-" "^1")*                                       *)
(*     atom    ::= "(" expr ")" | name                                     *)
(* A value read is a scalar or a point; Bad marks text that does not read. *)

Bad == [sort |-> "Bad", val |-> 0]
ScalarVal(v) == [sort |-> "S", val |-> v]
PointVal(v) == [sort |-> "P", val |-> v]

ValAdd(a, b) ==
    CASE a.sort = "S" /\ b.sort = "S" -> ScalarVal(DalekScalar_add(a.val, b.val))
      [] a.sort = "P" /\ b.sort = "P" -> PointVal(DalekPoint_add(a.val, b.val))
      [] OTHER -> Bad

ValSub(a, b) ==
    CASE a.sort = "S" /\ b.sort = "S" -> ScalarVal(DalekScalar_sub(a.val, b.val))
      [] a.sort = "P" /\ b.sort = "P" -> PointVal(DalekPoint_sub(a.val, b.val))
      [] OTHER -> Bad

ValMul(a, b) ==
    CASE a.sort = "S" /\ b.sort = "S" -> ScalarVal(DalekScalar_mul(a.val, b.val))
      [] a.sort = "P" /\ b.sort = "S" -> PointVal(DalekPoint_mul(a.val, b.val))
      [] a.sort = "S" /\ b.sort = "P" -> PointVal(DalekPoint_mul(b.val, a.val))
      [] OTHER -> Bad

ValNeg(a) ==
    CASE a.sort = "S" -> ScalarVal(DalekScalar_neg(a.val))
      [] a.sort = "P" -> PointVal(DalekPoint_neg(a.val))
      [] OTHER -> Bad

ValInv(a) == IF a.sort = "S" THEN ScalarVal(DalekScalar_invert(a.val)) ELSE Bad

Read(v, pos) == [v |-> v, pos |-> pos]
At(txt, i) == IF i <= Len(txt) THEN txt[i] ELSE "end"

RECURSIVE ReadExpr(_, _), ReadExprRest(_, _, _), ReadTerm(_, _), ReadTermRest(_, _, _)
RECURSIVE ReadUnary(_, _), ReadPostfixRest(_, _, _), ReadAtom(_, _)

ReadAtom(txt, i) ==
    CASE At(txt, i) = "(" ->
            LET e == ReadExpr(txt, i + 1)
            IN  IF At(txt, e.pos) = ")" THEN Read(e.v, e.pos + 1) ELSE Read(Bad, e.pos)
      [] At(txt, i) \in DOMAIN leafS -> Read(ScalarVal(leafS[txt[i]]), i + 1)
      [] At(txt, i) \in DOMAIN leafP -> Read(PointVal(leafP[txt[i]]), i + 1)
      [] OTHER -> Read(Bad, i + 1)

ReadPostfixRest(txt, acc, i) ==
    IF At(txt, i) = "^-" /\ At(txt, i + 1) = "^1"
    THEN ReadPostfixRest(txt, ValInv(acc), i + 2)
    ELSE Read(acc, i)

ReadUnary(txt, i) ==
    IF At(txt, i) = "-"
    THEN LET u == ReadUnary(txt, i + 1) IN Read(ValNeg(u.v), u.pos)
    ELSE LET a == ReadAtom(txt, i) IN ReadPostfixRest(txt, a.v, a.pos)

ReadTermRest(txt, acc, i) ==
    IF At(txt, i) = "*"
    THEN LET u == ReadUnary(txt, i + 1) IN ReadTermRest(txt, ValMul(acc, u.v), u.pos)
    ELSE Read(acc, i)

ReadTerm(txt, i) ==
    LET u == ReadUnary(txt, i) IN ReadTermRest(txt, u.v, u.pos)

ReadExprRest(txt, acc, i) ==
    CASE At(txt, i) = "+" ->
            LET u == ReadTerm(txt, i + 1) IN ReadExprRest(txt, ValAdd(acc, u.v), u.pos)
      [] At(txt, i) = "-" ->
            LET u == ReadTerm(txt, i + 1) IN ReadExprRest(txt, ValSub(acc, u.v), u.pos)
      [] OTHER -> Read(acc, i)

ReadExpr(txt, i) ==
    LET u == ReadTerm(txt, i) IN ReadExprRest(txt, u.v, u.pos)

IsNotSpace(c) == c # " "

\* The value of a whole printed expression.
ReadValue(chars) ==
    LET txt == SelectSeq(chars, IsNotSpace)
        e == ReadExpr(txt, 1)
    IN  IF e.pos = Len(txt) + 1 THEN e.v ELSE Bad

\* Trees built purely from named leaves and operators.
RECURSIVE NamesOnly(_)
NamesOnly(t) ==
    CASE t.k = "Name" -> TRUE
      [] t.k \in {"Add", "Sub", "Mul"} -> NamesOnly(t.l) /\ NamesOnly(t.r)
      [] t.k \in {"Inv", "Neg"} -> NamesOnly(t.x)
      [] OTHER -> FALSE

-----------------------------------------------------------------------------
\* C1: run on the shadow types and on the plain types, the same sequence of
\* operations from equal inputs gives equal numeric values: every shadow
\* scalar and point holds the value of its plain counterpart.
C1_ShadowEqualsPlain ==
    /\ \A i \in SReg : s[i].value = ds[i]
    /\ \A i \in PReg : p[i].value = dp[i]

\* C2: value/tree correspondence: the tree of every shadow scalar and point
\* built from distinctly named leaves and the constants by the operators
\* evaluates structurally to its numeric value.
C2_TreeEvaluatesToValue ==
    /\ \A i \in SReg : EvalS(s[i].tree) = s[i].value
    /\ \A i \in PReg : EvalP(p[i].tree) = p[i].value

\* A point derived by a subtraction and then a scalar * point product, not
\* the identity.
C2_Witness ==
    /\ last.op = "scalar_mul_point"
    /\ p[1].tree = Mul(Name("a"), Sub(Name("x"), Name("y")))
    /\ p[1].value # DalekPoint_identity

\* C3: the printed form of a tree built purely from named leaves, read the
\* usual way with each name replaced by its original value, is the numeric
\* value of the shadow scalar or point.
C3_PrintedFormReadsAsValue ==
    /\ \A i \in SReg : NamesOnly(s[i].tree)
            => ReadValue(Tree_fmt(s[i].tree)) = ScalarVal(s[i].value)
    /\ \A i \in PReg : NamesOnly(p[i].tree)
            => ReadValue(Tree_fmt(p[i].tree)) = PointVal(p[i].value)

\* C4: a non-assigning operator builds exactly one new node over the
\* unmodified trees of its operands, in operand order, without simplifying.
C4_OneNodeOverOperandTrees ==
    [][/\ last'.op = "scalar_add"
            => s'[last'.i].tree = Add(s[last'.i].tree, s[last'.j].tree)
       /\ last'.op = "scalar_sub"
            => s'[last'.i].tree = Sub(s[last'.i].tree, s[last'.j].tree)
       /\ last'.op = "scalar_mul"
            => s'[last'.i].tree = Mul(s[last'.i].tree, s[last'.j].tree)
       /\ last'.op = "scalar_neg" => s'[last'.i].tree = Neg(s[last'.i].tree)
       /\ last'.op = "scalar_invert" => s'[last'.i].tree = Inv(s[last'.i].tree)
       /\ last'.op = "point_add"
            => p'[last'.i].tree = Add(p[last'.i].tree, p[last'.j].tree)
       /\ last'.op = "point_sub"
            => p'[last'.i].tree = Sub(p[last'.i].tree, p[last'.j].tree)
       /\ last'.op = "point_neg" => p'[last'.i].tree = Neg(p[last'.i].tree)]_vars

\* a - a has just been computed: the tree is Sub(a, a), the value zero.
C4_Witness ==
    /\ last = Did("scalar_sub", 1, 1)
    /\ s[1] = TestScalar(DalekScalar_ZERO, Sub(Name("a"), Name("a")))

\* C5: ==, ct_eq and hashing depend only on the numeric value: two shadow
\* scalars (points) are equal under == and under ct_eq exactly when their
\* values are equal, whatever their trees, and equal values hash alike.
C5_EqualityIgnoresTree ==
    /\ \A i \in SReg, j \in SReg :
          /\ Scalar_eq(s[i], s[j]) <=> s[i].value = s[j].value
          /\ Scalar_ct_eq(s[i], s[j]) = 1 <=> s[i].value = s[j].value
          /\ s[i].value = s[j].value => Scalar_hash(s[i]) = Scalar_hash(s[j])
    /\ \A i \in PReg, j \in PReg :
          /\ Point_eq(p[i], p[j]) <=> p[i].value = p[j].value
          /\ Point_ct_eq(p[i], p[j]) = 1 <=> p[i].value = p[j].value

\* Two scalars of equal value, one derived and one a leaf, compare equal.
C5_Witness ==
    /\ s[1].value = s[2].value
    /\ s[1].tree.k = "Mul"
    /\ s[2].tree = Name("b")
    /\ Scalar_eq(s[1], s[2])
    /\ Scalar_ct_eq(s[1], s[2]) = 1

\* C6: naming twice keeps the value and leaves the tree Name(n2); naming
\* replaces the prior tree, whatever it was, and is the identity on the
\* plain types.
C6_LastNameWins ==
    /\ \A i \in SReg, n1 \in DOMAIN ScalarLeafName, n2 \in DOMAIN ScalarLeafName :
          /\ Scalar_named(Scalar_named(s[i], ScalarLeafName[n1]), ScalarLeafName[n2])
                = TestScalar(s[i].value, Name(ScalarLeafName[n2]))
          /\ DalekScalar_named(DalekScalar_named(ds[i], ScalarLeafName[n1]),
                               ScalarLeafName[n2]) = ds[i]
    /\ \A i \in PReg, n1 \in DOMAIN PointLeafName, n2 \in DOMAIN PointLeafName :
          /\ Point_named(Point_named(p[i], PointLeafName[n1]), PointLeafName[n2])
                = TestRistrettoPoint(p[i].value, Name(PointLeafName[n2]))
          /\ DalekPoint_named(DalekPoint_named(dp[i], PointLeafName[n1]),
                              PointLeafName[n2]) = dp[i]
    /\ last.op = "scalar_named"
          => s[last.i] = TestScalar(old.value, Name(ScalarLeafName[last.j]))
    /\ last.op = "point_named"
          => p[last.i] = TestRistrettoPoint(old.value, Name(PointLeafName[last.j]))

\* A scalar whose tree was a product has just been named b.
C6_Witness ==
    /\ last = Did("scalar_named", 1, 2)
    /\ old.tree.k = "Mul"
    /\ s[1] = TestScalar(old.value, Name("b"))

\* C7 as stated: every form of scalar-point multiplication puts the point's
\* tree first and the scalar's tree second.
C7_PointTreeFirst ==
    [][last'.op \in {"point_mul", "scalar_mul_point", "point_mul_assign"}
            => p'[last'.i].tree = Mul(p[last'.i].tree, s[last'.j].tree)]_vars

\* C7 amended: the children are in the order of the source expression:
\* point * scalar and point *= scalar give Mul(point.tree, scalar.tree),
\* scalar * point gives Mul(scalar.tree, point.tree).
C7_TreeInSourceOrder ==
    [][/\ last'.op \in {"point_mul", "point_mul_assign"}
            => p'[last'.i].tree = Mul(p[last'.i].tree, s[last'.j].tree)
       /\ last'.op = "scalar_mul_point"
            => p'[last'.i].tree = Mul(s[last'.j].tree, p[last'.i].tree)]_vars

\* b * x has just been computed, with b a named scalar.
C7_Witness ==
    /\ last = Did("scalar_mul_point", 1, 2)
    /\ p[1].tree = Mul(Name("b"), Name("x"))

RECURSIVE SumOfValues(_)
SumOfValues(vs) == IF vs = <<>> THEN 0 ELSE (Head(vs) + SumOfValues(Tail(vs))) % Order

RECURSIVE ProductOfValues(_)
ProductOfValues(vs) ==
    IF vs = <<>> THEN 1 ELSE (Head(vs) * ProductOfValues(Tail(vs))) % Order

\* C8: sum and product of shadow scalars and sum of shadow points return the
\* numeric fold of the elements' values with the tree Unnamed, for every
\* length of the iterable, the empty one and the single element included.
C8_AggregatesAreUnnamedFolds ==
    [][/\ last'.op = "scalar_sum"
            => s'[last'.i] = TestScalar(
                   SumOfValues([k \in DOMAIN last'.arg |-> s[last'.arg[k]].value]),
                   Unnamed)
       /\ last'.op = "scalar_product"
            => s'[last'.i] = TestScalar(
                   ProductOfValues([k \in DOMAIN last'.arg |-> s[last'.arg[k]].value]),
                   Unnamed)
       /\ last'.op = "point_sum"
            => p'[last'.i] = TestRistrettoPoint(
                   SumOfValues([k \in DOMAIN last'.arg |-> p[last'.arg[k]].value]),
                   Unnamed)]_vars

\* The product of no scalars has just been taken: ONE, with the tree Unnamed.
C8_Witness ==
    /\ last = DidOver("scalar_product", 1, <<>>)
    /\ s[1] = TestScalar(DalekScalar_ONE, Unnamed)

\* C10: batch_invert on a slice of nonzero shadow scalars replaces each
\* element's value by its inverse, in place, leaves every tree as it was and
\* the slice as long as it was, and returns a scalar whose tree is Unnamed.
C10_BatchInvertKeepsTrees ==
    [][(/\ last'.op = "scalar_batch_invert"
        /\ \A k \in DOMAIN last'.arg : s[last'.arg[k]].value # DalekScalar_ZERO)
            => /\ DOMAIN s' = DOMAIN s
               /\ \A k \in DOMAIN last'.arg :
                     /\ s'[last'.arg[k]].tree = s[last'.arg[k]].tree
                     /\ (s'[last'.arg[k]].value * s[last'.arg[k]].value) % Order = 1
               /\ \A i \in SReg :
                     (\A k \in DOMAIN last'.arg : last'.arg[k] # i) => s'[i] = s[i]
               /\ ret'.tree = Unnamed]_vars

\* Both scalar variables have just been batch-inverted: a, which was 2, is
\* now 3 and still carries the tree a.
C10_Witness ==
    /\ last = DidOver("scalar_batch_invert", 0, <<1, 2>>)
    /\ leafS["a"] = 2
    /\ s[1] = TestScalar(3, Name("a"))
    /\ s[2].value # DalekScalar_ZERO
    /\ ret.tree = Unnamed

\* C9: after x op= y the left operand holds exactly what x op y returns,
\* value and tree, and the right operand is unchanged.
C9_AssignIsOperatorThenRebind ==
    [][/\ last'.op = "scalar_add_assign"
            => s'[last'.i] = Scalar_add(s[last'.i], s[last'.j])
       /\ last'.op = "scalar_sub_assign"
            => s'[last'.i] = Scalar_sub(s[last'.i], s[last'.j])
       /\ last'.op = "scalar_mul_assign"
            => s'[last'.i] = Scalar_mul(s[last'.i], s[last'.j])
       /\ last'.op = "point_add_assign"
            => p'[last'.i] = Point_add(p[last'.i], p[last'.j])
       /\ last'.op = "point_sub_assign"
            => p'[last'.i] = Point_sub(p[last'.i], p[last'.j])
       /\ last'.op = "point_mul_assign"
            => p'[last'.i] = Point_mul(p[last'.i], s[last'.j])
       /\ last'.op \in {"scalar_add_assign", "scalar_sub_assign", "scalar_mul_assign"}
            => \A j \in SReg \ {last'.i} : s'[j] = s[j]
       /\ last'.op \in {"point_add_assign", "point_sub_assign"}
            => \A j \in PReg \ {last'.i} : p'[j] = p[j]
       /\ last'.op = "point_mul_assign" => s' = s]_vars

\* A tree with all the trees below it.
RECURSIVE Subtrees(_)
Subtrees(t) ==
    CASE t.k \in {"Add", "Sub", "Mul"} -> {t} \cup Subtrees(t.l) \cup Subtrees(t.r)
      [] t.k \in {"Inv", "Neg"} -> {t} \cup Subtrees(t.x)
      [] OTHER -> {t}

\* The text of one node as the rendering contract gives it, over the text of
\* its children.
Parenthesised(t, op) ==
    <<"(">> \o Tree_fmt(t.l) \o <<" ", op, " ">> \o Tree_fmt(t.r) \o <<")">>

RendersAsStated(t) ==
    /\ t.k = "Add" => Tree_fmt(t) = Parenthesised(t, "+")
    /\ t.k = "Sub" => Tree_fmt(t) = Parenthesised(t, "-")
    /\ t.k = "Mul" => Tree_fmt(t) = Parenthesised(t, "*")
    /\ t.k = "Inv" => Tree_fmt(t) = Tree_fmt(t.x) \o <<"^-", "^1">>
    /\ t.k = "Neg" => Tree_fmt(t) = <<"-">> \o Tree_fmt(t.x)

\* C11: the rendering fully parenthesises binary operations: every Add, Sub
\* and Mul node of a tree renders as "(" left op right ")" over its rendered
\* children, Inv as its child followed by the superscript, Neg as "-"
\* followed by its child.
C11_BinaryNodesParenthesised ==
    /\ \A i \in SReg : \A t \in Subtrees(s[i].tree) : RendersAsStated(t)
    /\ \A i \in PReg : \A t \in Subtrees(p[i].tree) : RendersAsStated(t)

====
